---- MODULE Spec2Model ----
(***************************************************************************)
(* ClopiNet sequence embedding (pyannote/audio/embedding/models.py).       *)
(*                                                                         *)
(* The module is modelled as the object the constructor builds (its        *)
(* configuration fields and its lists of layers, each layer with the       *)
(* dimensions it was created with) and forward() as the sequence of        *)
(* tensor operations of its body.  A tensor is its shape and, from the     *)
(* end of the layer stack on, its values as exact rationals.  What the     *)
(* trained layers compute is not part of the source: the values the layer  *)
(* stack and the attention softmax produce on a call are inputs of the     *)
(* call (fields act and attw of the input).  All tensors are on one        *)
(* device: the .cuda() moves of lines 168-189 and 218-219 are left out.    *)
(***************************************************************************)
EXTENDS Integers, Sequences, FiniteSets, TLC

\* ------------------------------------------------------------------ bounds
MaxDim == 2
MaxLayers == 2
MaxFeat == 2
MaxTime == 2
MaxBatch == 2
MaxCells == 4

VARIABLES
    pc,        \* "new", "ready", "rejected" (constructor raised), "returned", "raised"
    args,      \* the arguments the constructor was called with
    model,     \* the ClopiNet object (NoModule before construction)
    sequence,  \* the argument of the forward call that last ran
    ret,       \* what that call returned or raised
    attn,      \* the attention weights that call computed (its local attn)
    trace,     \* the stages of forward's body that call executed, in order
    applied    \* the sub-module calls that call made, in order

vars == <<pc, args, model, sequence, ret, attn, trace, applied>>

\* ------------------------------------------------------- small helpers
Min(a, b) == IF a <= b THEN a ELSE b

Max(a, b) == IF a >= b THEN a ELSE b

Abs(a) == IF a < 0 THEN -a ELSE a

Sign(a) == IF a < 0 THEN -1 ELSE IF a > 0 THEN 1 ELSE 0

RECURSIVE Gcd(_, _)
Gcd(a, b) == IF b = 0 THEN a ELSE Gcd(b, a % b)

RECURSIVE SumSeq(_)
\* Python sum() of a list of integers
SumSeq(s) == IF s = <<>> THEN 0 ELSE Head(s) + SumSeq(Tail(s))

Last(s) == s[Len(s)]

\* --------------------------------------------------- exact rationals
\* [n, d] is n/d, d > 0, in lowest terms; d = 0 is NaN (the float 0/0).
NaN == [n |-> 0, d |-> 0]

IsNaN(q) == q.d = 0

Q(n, d) ==
    IF d = 0 THEN NaN
    ELSE LET g == Gcd(Abs(n), Abs(d))
             s == IF d < 0 THEN -1 ELSE 1
         IN  [n |-> (s * n) \div g, d |-> (s * d) \div g]

QInt(k) == [n |-> k, d |-> 1]

QAdd(a, b) == IF IsNaN(a) \/ IsNaN(b) THEN NaN ELSE Q(a.n * b.d + b.n * a.d, a.d * b.d)

QSub(a, b) == IF IsNaN(a) \/ IsNaN(b) THEN NaN ELSE Q(a.n * b.d - b.n * a.d, a.d * b.d)

QMul(a, b) == IF IsNaN(a) \/ IsNaN(b) THEN NaN ELSE Q(a.n * b.n, a.d * b.d)

\* float division: 0/0 is NaN (x/0 with x # 0 is infinite; the only divisor
\* that can be 0 here is a norm, which is 0 only when every x is 0)
QDiv(a, b) == IF IsNaN(a) \/ IsNaN(b) THEN NaN ELSE Q(a.n * b.d, a.d * b.n)

\* the exact square root of a perfect square
ISqrt(k) == CHOOSE r \in 0..k : r * r = k

QSqrt(a) == IF IsNaN(a) THEN NaN ELSE [n |-> ISqrt(a.n), d |-> ISqrt(a.d)]

RECURSIVE QSum(_)
QSum(s) == IF s = <<>> THEN QInt(0) ELSE QAdd(Head(s), QSum(Tail(s)))

\* ----------------------------------------------------------- tensors
\* A tensor is [shape, val, rep].  val is the nested sequence of its entries
\* (<<>> while the values are not followed); rep says how an entry reads:
\* "ratio", the entry is the value; "root", the entry is sign(x) * x^2.
Tensor(shape, val, rep) == [shape |-> shape, val |-> val, rep |-> rep]

Shaped(shape) == Tensor(shape, <<>>, "none")

\* the local name attn before line 230 binds it
Unbound == [shape |-> <<>>, val |-> <<>>, rep |-> "unbound"]

\* ------------------------------------------------- constructor arguments
\* The attention argument is False or a list: [list, dims].
NoAttention == [list |-> FALSE, dims |-> <<>>]

AttentionList(dims) == [list |-> TRUE, dims |-> dims]

\* Python truth value of self.attention (False and [] are both false)
Truthy(attention) == attention.list /\ attention.dims # <<>>

\* "RNN" stands for any kind other than the two supported ones
RnnKinds == {"LSTM", "GRU", "RNN"}

HiddenDims == 1..MaxDim

DimLists == UNION {[1..n -> HiddenDims] : n \in 0..MaxLayers}

Args(n_features, rnn, recurrent, bidirectional, linear, weighted, internal, normalize, attention, return_attention, batch_normalization) ==
    [n_features |-> n_features, rnn |-> rnn, recurrent |-> recurrent,
     bidirectional |-> bidirectional, linear |-> linear, weighted |-> weighted,
     internal |-> internal, normalize |-> normalize, attention |-> attention,
     return_attention |-> return_attention,
     batch_normalization |-> batch_normalization]

\* ------------------------------------------------------------ __init__
NoModule == [built |-> FALSE]

NumDirections(bidirectional) == IF bidirectional THEN 2 ELSE 1

RecurrentLayer(rnn, input_dim, hidden_dim, bidirectional) ==
    [cls |-> rnn, input_size |-> input_dim, hidden_size |-> hidden_dim,
     bidirectional |-> bidirectional]

LinearLayer(input_dim, hidden_dim) ==
    [in_features |-> input_dim, out_features |-> hidden_dim]

RECURSIVE BuildRecurrent(_, _, _, _)
\* lines 100-113: the loop from entry i on, layers built so far, input_dim
BuildRecurrent(a, i, input_dim, layers) ==
    IF i > Len(a.recurrent) THEN [ok |-> TRUE, layers |-> layers]
    ELSE IF a.rnn \notin {"LSTM", "GRU"} THEN [ok |-> FALSE, layers |-> layers]
    ELSE BuildRecurrent(a, i + 1, a.recurrent[i],
             Append(layers, RecurrentLayer(a.rnn, input_dim, a.recurrent[i],
                                           a.bidirectional)))

RECURSIVE BuildLinear(_, _, _, _)
\* lines 122-126 and 141-145: a chain of nn.Linear over the list dims
BuildLinear(dims, i, input_dim, layers) ==
    IF i > Len(dims) THEN layers
    ELSE BuildLinear(dims, i + 1, dims[i],
                     Append(layers, LinearLayer(input_dim, dims[i])))

\* a slip: the first linear layer sized for the last recurrent layer alone
LinearInputDimLast(a) == IF a.recurrent = <<>> THEN 0 ELSE Last(a.recurrent)

\* line 118: the input dimension of the first linear layer
LinearInputDim(a) == SumSeq(a.recurrent)

\* input_dim after the loop of lines 122-126
StackOutputDim(a) == IF a.linear = <<>> THEN LinearInputDim(a) ELSE Last(a.linear)

\* a slip: the scalar layer is never added
NeedsScalarLayerNever(input_dim) == FALSE

\* line 146: a last layer with one output is added to the attention chain
NeedsScalarLayer(input_dim) == input_dim > 1

\* lines 136-150
BuildAttention(a) ==
    IF ~Truthy(a.attention) THEN <<>>
    ELSE LET chain == BuildLinear(a.attention.dims, 1, a.n_features, <<>>)
             input_dim == Last(a.attention.dims)
         IN  IF NeedsScalarLayer(input_dim)
             THEN Append(chain, LinearLayer(input_dim, 1))
             ELSE chain

Ones(n) == [d \in 1..n |-> QInt(1)]

\* lines 77-150: the object built, or the exception raised
Construct(a) ==
    LET rec == BuildRecurrent(a, 1, a.n_features, <<>>)
        input_dim == StackOutputDim(a)
    IN  IF ~rec.ok THEN [ok |-> FALSE, exc |-> "ValueError", module |-> NoModule]
        ELSE [ok |-> TRUE, exc |-> "none", module |->
              [built |-> TRUE,
               n_features |-> a.n_features, rnn |-> a.rnn,
               recurrent |-> a.recurrent, bidirectional |-> a.bidirectional,
               linear |-> a.linear, weighted |-> a.weighted,
               internal |-> a.internal, normalize |-> a.normalize,
               attention |-> a.attention,
               return_attention |-> a.return_attention,
               batch_normalization |-> a.batch_normalization,
               num_directions_ |-> NumDirections(a.bidirectional),
               recurrent_layers_ |-> rec.layers,
               linear_layers_ |-> BuildLinear(a.linear, 1, LinearInputDim(a), <<>>),
               alphas_ |-> IF a.weighted THEN Ones(input_dim) ELSE <<>>,
               batch_norm_ |-> IF a.batch_normalization
                               THEN [num_features |-> input_dim, stats |-> "initial"]
                               ELSE [num_features |-> 0, stats |-> "absent"],
               attention_layers_ |-> BuildAttention(a)]]

\* lines 152-156: the output_dim property
OutputDim(m) == IF m.linear # <<>> THEN Last(m.linear) ELSE SumSeq(m.recurrent)

\* ---------------------------------------------------- torch operations
\* broadcasting of two shapes, aligned on the right
Pad(shape, n) ==
    [i \in 1..n |-> IF i <= n - Len(shape) THEN 1 ELSE shape[i - (n - Len(shape))]]

Broadcastable(s1, s2) ==
    LET n == Max(Len(s1), Len(s2))
        a == Pad(s1, n)
        b == Pad(s2, n)
    IN  \A i \in 1..n : a[i] = b[i] \/ a[i] = 1 \/ b[i] = 1

BroadcastShape(s1, s2) ==
    LET n == Max(Len(s1), Len(s2))
        a == Pad(s1, n)
        b == Pad(s2, n)
    IN  [i \in 1..n |-> IF a[i] = 1 THEN b[i] ELSE a[i]]

\* entry d of a vector that has d entries or one (broadcast)
Pick(vec, d) == IF Len(vec) = 1 THEN vec[1] ELSE vec[d]

VecMul(u, v) == [d \in 1..Max(Len(u), Len(v)) |-> QMul(Pick(u, d), Pick(v, d))]

VecDiv(u, v) == [d \in 1..Max(Len(u), Len(v)) |-> QDiv(Pick(u, d), Pick(v, d))]

VecAdd(u, v) == [d \in 1..Len(u) |-> QAdd(u[d], v[d])]

\* a slip: the 1-norm, the sum of absolute values
Norm1(vec) == QSum([d \in 1..Len(vec) |-> [vec[d] EXCEPT !.n = Abs(@)]])

\* torch.norm(., 2) of one vector: the square root of the sum of squares
Norm2(vec) == QSqrt(QSum([d \in 1..Len(vec) |-> QMul(vec[d], vec[d])]))

\* nn.Linear / nn.LSTM / nn.GRU reject an input whose last dimension is not
\* the one they were built for; the values they compute are not followed
ApplyLinear(layer, input) ==
    IF Last(input.shape) # layer.in_features
    THEN [ok |-> FALSE, output |-> input]
    ELSE [ok |-> TRUE,
          output |-> Shaped([input.shape EXCEPT ![Len(input.shape)] = layer.out_features])]

\* an initial state of a recurrent layer: a tensor of zeros, or a state a
\* layer returned (zero |-> FALSE)
State(shape, zero) == [shape |-> shape, zero |-> zero]

NoState == [shape |-> <<>>, zero |-> FALSE]

ApplyRecurrent(layer, input, hidden) ==
    LET want == <<NumDirections(layer.bidirectional), input.shape[2], layer.hidden_size>>
        fits == /\ input.shape[3] = layer.input_size
                /\ hidden.h.shape = want
                /\ ((layer.cls = "LSTM") => (hidden.c.shape = want))
    IN  IF ~fits
        THEN [ok |-> FALSE, output |-> input, final |-> NoState]
        ELSE [ok |-> TRUE,
              output |-> Shaped(<<input.shape[1], input.shape[2],
                                  NumDirections(layer.bidirectional) * layer.hidden_size>>),
              final |-> State(want, FALSE)]

\* ------------------------------------------------------------- forward
\* The frame of a forward call: its locals (output, outputs, attn, the _ of
\* line 193), the module's batch-norm statistics, what it has executed, and,
\* once it is over, what it returned or raised.
NoReturn == [kind |-> "none", exc |-> "none", out |-> Unbound, attn |-> Unbound]

Frame0(m) ==
    [output |-> Unbound, outputs |-> <<>>, attn |-> Unbound, discarded |-> NoState,
     stats |-> m.batch_norm_.stats, trace |-> <<>>, applied |-> <<>>,
     done |-> FALSE, ret |-> NoReturn]

Raise(f, exc) ==
    [f EXCEPT !.done = TRUE, !.ret = [NoReturn EXCEPT !.kind = "error", !.exc = exc]]

Stage(f, name) == [f EXCEPT !.trace = Append(@, name)]

\* a slip: the feature dimension is not checked
CheckInputSkipped(m, x, f) == [Stage(f, "check") EXCEPT !.output = Shaped(x.shape)]

\* lines 160-166
CheckInput(m, x, f) ==
    IF x.shape[3] # m.n_features
    THEN Raise(Stage(f, "check"), "ValueError")
    ELSE [Stage(f, "check") EXCEPT !.output = Shaped(x.shape)]

\* lines 174-190: the initial state given to a recurrent layer
InitialHidden(m, batch_size, hidden_dim) ==
    LET zeros == State(<<m.num_directions_, batch_size, hidden_dim>>, TRUE)
    IN  IF m.rnn = "LSTM" THEN [bound |-> TRUE, h |-> zeros, c |-> zeros]
        ELSE IF m.rnn = "GRU" THEN [bound |-> TRUE, h |-> zeros, c |-> NoState]
        ELSE [bound |-> FALSE, h |-> NoState, c |-> NoState]

\* lines 196-198: the two halves of a bidirectional output, averaged
AverageDirections(output, hidden_dim) ==
    LET width == output.shape[3]
        fst == <<output.shape[1], output.shape[2], Min(hidden_dim, width)>>
        snd == <<output.shape[1], output.shape[2], Max(width - hidden_dim, 0)>>
    IN  IF Broadcastable(fst, snd)
        THEN [ok |-> TRUE, output |-> Shaped(BroadcastShape(fst, snd))]
        ELSE [ok |-> FALSE, output |-> output]

\* a slip: a layer after the first starts from the state the layer before
\* it returned
RecurrentStepCarried(m, x, f, i) ==
    LET hidden_dim == m.recurrent[i]
        layer == m.recurrent_layers_[i]
        zeros == InitialHidden(m, x.shape[2], hidden_dim)
        hidden == IF i = 1 THEN zeros
                  ELSE [zeros EXCEPT !.h = f.discarded,
                                     !.c = IF m.rnn = "LSTM" THEN f.discarded ELSE @]
        call == [op |-> "recurrent", index |-> i, layer |-> layer,
                 input |-> f.output.shape, hidden |-> hidden]
        g == [f EXCEPT !.applied = Append(@, call)]
        r == ApplyRecurrent(layer, f.output, hidden)
        avg == IF m.bidirectional THEN AverageDirections(r.output, hidden_dim)
               ELSE [ok |-> TRUE, output |-> r.output]
    IN  IF ~hidden.bound THEN Raise(f, "UnboundLocalError")
        ELSE IF ~r.ok \/ ~avg.ok THEN Raise(g, "RuntimeError")
        ELSE [g EXCEPT !.output = avg.output, !.discarded = r.final,
                       !.outputs = Append(@, avg.output)]

\* lines 172-200: one turn of the loop over the recurrent layers
RecurrentStep(m, x, f, i) ==
    LET hidden_dim == m.recurrent[i]
        layer == m.recurrent_layers_[i]
        hidden == InitialHidden(m, x.shape[2], hidden_dim)
        call == [op |-> "recurrent", index |-> i, layer |-> layer,
                 input |-> f.output.shape, hidden |-> hidden]
        g == [f EXCEPT !.applied = Append(@, call)]
        r == ApplyRecurrent(layer, f.output, hidden)
        avg == IF m.bidirectional THEN AverageDirections(r.output, hidden_dim)
               ELSE [ok |-> TRUE, output |-> r.output]
    IN  IF ~hidden.bound THEN Raise(f, "UnboundLocalError")
        ELSE IF ~r.ok \/ ~avg.ok THEN Raise(g, "RuntimeError")
        ELSE [g EXCEPT !.output = avg.output, !.discarded = r.final,
                       !.outputs = Append(@, avg.output)]

RECURSIVE RecurrentLoop(_, _, _, _)
RecurrentLoop(m, x, f, i) ==
    IF f.done \/ i > Min(Len(m.recurrent), Len(m.recurrent_layers_)) THEN f
    ELSE RecurrentLoop(m, x, RecurrentStep(m, x, f, i), i + 1)

\* lines 170-200
RecurrentStack(m, x, f) ==
    IF m.recurrent = <<>> \/ m.recurrent_layers_ = <<>> THEN f
    ELSE RecurrentLoop(m, x, Stage(f, "recurrent"), 1)

\* line 203: torch.cat(outputs, dim=2); an empty list is an error
Concatenate(m, x, f) ==
    LET g == Stage(f, "concat")
        width == SumSeq([k \in 1..Len(f.outputs) |-> f.outputs[k].shape[3]])
    IN  IF f.outputs = <<>> THEN Raise(g, "RuntimeError")
        ELSE [g EXCEPT !.output = Shaped(<<x.shape[1], x.shape[2], width>>)]

\* lines 209-213: one linear layer and its tanh
LinearStep(m, x, f, i) ==
    LET layer == m.linear_layers_[i]
        call == [op |-> "linear", index |-> i, layer |-> layer,
                 input |-> f.output.shape]
        g == [f EXCEPT !.applied = Append(@, call)]
        r == ApplyLinear(layer, f.output)
    IN  IF ~r.ok THEN Raise(g, "RuntimeError")
        ELSE [g EXCEPT !.output = r.output]

RECURSIVE LinearLoop(_, _, _, _)
LinearLoop(m, x, f, i) ==
    IF f.done \/ i > Min(Len(m.linear), Len(m.linear_layers_)) THEN f
    ELSE LinearLoop(m, x, LinearStep(m, x, f, i), i + 1)

\* lines 206-213
LinearStack(m, x, f) ==
    IF m.linear = <<>> \/ m.linear_layers_ = <<>> THEN f
    ELSE LinearLoop(m, x, Stage(f, "linear"), 1)

\* The values of the stacked layers' output on this call (lines 193-213):
\* entry (t, b) is x.act[t][b] times a fixed vector of the output's width,
\* (3/8, 4/8, 0, ...), all within tanh's range.
BaseVector(width) ==
    [d \in 1..width |-> IF d = 1 THEN Q(3, 8) ELSE IF d = 2 THEN Q(4, 8) ELSE QInt(0)]

Activations(m, x, f) ==
    LET base == BaseVector(f.output.shape[3])
        val == [t \in 1..f.output.shape[1] |->
                  [b \in 1..f.output.shape[2] |->
                     [d \in 1..Len(base) |-> QMul(QInt(x.act[t][b]), base[d])]]]
    IN  [f EXCEPT !.output = Tensor(f.output.shape, val, "ratio")]

\* lines 217-220: output * self.alphas_
Weight(m, x, f) ==
    LET call == [op |-> "alphas", index |-> 1, input |-> f.output.shape]
        g == [Stage(f, "weight") EXCEPT !.applied = Append(@, call)]
        shape == <<Len(m.alphas_)>>
        val == [t \in 1..f.output.shape[1] |->
                  [b \in 1..f.output.shape[2] |-> VecMul(f.output.val[t][b], m.alphas_)]]
    IN  IF ~m.weighted THEN f
        ELSE IF ~Broadcastable(f.output.shape, shape) THEN Raise(g, "RuntimeError")
        ELSE [g EXCEPT !.output =
                 Tensor(BroadcastShape(f.output.shape, shape), val, "ratio")]

\* output / torch.norm(output, 2, dim, keepdim=True) on one vector
L2Normalize(vec) == VecDiv(vec, <<Norm2(vec)>>)

\* line 224: along dimension 2 of (time, batch, dimension)
NormalizeSequence(t) ==
    Tensor(t.shape,
           [i \in 1..t.shape[1] |-> [b \in 1..t.shape[2] |-> L2Normalize(t.val[i][b])]],
           "ratio")

\* line 244: along dimension 1 of (batch, dimension)
NormalizeBatch(t) ==
    Tensor(t.shape, [b \in 1..t.shape[1] |-> L2Normalize(t.val[b])], "ratio")

ReturnTensor(f) ==
    [Stage(f, "return") EXCEPT !.done = TRUE,
         !.ret = [NoReturn EXCEPT !.kind = "tensor", !.out = f.output]]

\* a slip: the internal flag is not looked at
InternalIgnored(m, x, f) == f

\* lines 222-227
Internal(m, x, f) ==
    IF ~m.internal THEN f
    ELSE IF m.normalize
         THEN ReturnTensor([Stage(f, "normalize") EXCEPT
                               !.output = NormalizeSequence(f.output)])
         ELSE ReturnTensor(f)

\* lines 233-234: one attention layer and its tanh
AttentionStep(m, x, f, i) ==
    LET layer == m.attention_layers_[i]
        call == [op |-> "attention", index |-> i, layer |-> layer,
                 input |-> f.attn.shape]
        g == [f EXCEPT !.applied = Append(@, call)]
        r == ApplyLinear(layer, f.attn)
    IN  IF ~r.ok THEN Raise(g, "RuntimeError")
        ELSE [g EXCEPT !.attn = r.output]

RECURSIVE AttentionLoop(_, _, _, _)
\* lines 231-234: zip(self.attention_layers_, self.attention + [1])
AttentionLoop(m, x, f, i) ==
    IF f.done \/ i > Min(Len(m.attention_layers_), Len(m.attention.dims) + 1) THEN f
    ELSE AttentionLoop(m, x, AttentionStep(m, x, f, i), i + 1)

\* line 235: F.softmax(attn, dim=0); its values on this call are x.attw
Softmax(x, scores) ==
    Tensor(scores.shape,
           [t \in 1..scores.shape[1] |->
              [b \in 1..scores.shape[2] |-> [a \in 1..scores.shape[3] |-> x.attw[t][b]]]],
           "ratio")

\* line 236: output * attn, in the frame g the attention loop left
ApplyAttention(f, g, soft) ==
    LET val == [t \in 1..f.output.shape[1] |->
                  [b \in 1..f.output.shape[2] |->
                     VecMul(f.output.val[t][b], soft.val[t][b])]]
    IN  IF g.done THEN g
        ELSE IF ~Broadcastable(f.output.shape, soft.shape) THEN Raise(g, "RuntimeError")
        ELSE [g EXCEPT !.attn = soft,
                       !.output = Tensor(BroadcastShape(f.output.shape, soft.shape),
                                         val, "ratio")]

\* lines 229-236
Attention(m, x, f) ==
    IF m.attention_layers_ = <<>> THEN f
    ELSE CHOOSE r \in
           UNION {{ApplyAttention(f, g, soft) : soft \in {Softmax(x, g.attn)}} :
                    g \in {AttentionLoop(m, x, [Stage(f, "attention") EXCEPT
                                                   !.attn = Shaped(x.shape)], 1)}} : TRUE

RECURSIVE SumOverTime(_, _, _)
\* entry b of output.sum(dim=0), from timestep t on
SumOverTime(val, t, b) ==
    IF t = Len(val) THEN val[t][b] ELSE VecAdd(val[t][b], SumOverTime(val, t + 1, b))

\* a slip: the sum runs over the batch axis, output.sum(dim=1)
PoolOverBatch(m, x, f) ==
    [Stage(f, "pool") EXCEPT !.output =
        Tensor(<<f.output.shape[1], f.output.shape[3]>>,
               [t \in 1..f.output.shape[1] |->
                  [d \in 1..f.output.shape[3] |->
                     QSum([b \in 1..f.output.shape[2] |-> f.output.val[t][b][d]])]],
               "ratio")]

\* line 239: output.sum(dim=0)
Pool(m, x, f) ==
    [Stage(f, "pool") EXCEPT !.output =
        Tensor(<<f.output.shape[2], f.output.shape[3]>>,
               [b \in 1..f.output.shape[2] |-> SumOverTime(f.output.val, 1, b)],
               "ratio")]

\* lines 243-245
Normalize(m, x, f) ==
    IF ~m.normalize THEN f
    ELSE [Stage(f, "normalize") EXCEPT !.output = NormalizeBatch(f.output)]

\* nn.BatchNorm1d(affine=False) in training mode, on column d of a batch:
\* (x - mean) / sqrt(var + eps) with the batch's mean and biased variance.
\* The entry kept is sign(y) * y^2 of the result y, exact up to eps (1e-5):
\* 0 when the column is constant, (x - mean)^2 / var otherwise.
BatchNormEntry(val, b, d) ==
    LET n == Len(val)
        mean == QDiv(QSum([k \in 1..n |-> val[k][d]]), QInt(n))
        dev(k) == QSub(val[k][d], mean)
        var == QDiv(QSum([k \in 1..n |-> QMul(dev(k), dev(k))]), QInt(n))
    IN  IF IsNaN(var) THEN NaN
        ELSE IF var.n = 0 THEN QInt(0)
        ELSE QMul(QInt(Sign(dev(b).n)), QDiv(QMul(dev(b), dev(b)), var))

\* lines 248-249: self.batch_norm_(output), which also updates the running
\* statistics of the module
BatchNorm(m, x, f) ==
    LET call == [op |-> "batch_norm", index |-> 1, input |-> f.output.shape]
        g == [Stage(f, "batchnorm") EXCEPT !.applied = Append(@, call)]
        val == [b \in 1..f.output.shape[1] |->
                  [d \in 1..f.output.shape[2] |-> BatchNormEntry(f.output.val, b, d)]]
    IN  IF ~m.batch_normalization THEN f
        ELSE IF f.output.shape[2] # m.batch_norm_.num_features
             THEN Raise(g, "RuntimeError")
        ELSE [g EXCEPT !.output = Tensor(f.output.shape, val, "root"),
                       !.stats = "updated"]

\* lines 251-254
Return(m, x, f) ==
    IF ~m.return_attention THEN ReturnTensor(f)
    ELSE IF f.attn = Unbound THEN Raise(Stage(f, "return"), "UnboundLocalError")
    ELSE [Stage(f, "return") EXCEPT !.done = TRUE,
             !.ret = [NoReturn EXCEPT !.kind = "tuple", !.out = f.output,
                                      !.attn = f.attn]]

\* In the bodies below a statement runs unless the call is already over,
\* and each frame is evaluated once, as the element of a set.

\* a slip: batch normalization before the L2 normalization
EmbedBatchNormFirst(m, x, f) ==
    LET f1 == CHOOSE r \in {IF g.done THEN g ELSE Pool(m, x, g) : g \in {f}} : TRUE
        f2 == CHOOSE r \in {IF g.done THEN g ELSE BatchNorm(m, x, g) : g \in {f1}} : TRUE
        f3 == CHOOSE r \in {IF g.done THEN g ELSE Normalize(m, x, g) : g \in {f2}} : TRUE
        f4 == CHOOSE r \in {IF g.done THEN g ELSE Return(m, x, g) : g \in {f3}} : TRUE
    IN  f4

\* lines 238-254: pooling, normalizations and return
Embed(m, x, f) ==
    LET f1 == CHOOSE r \in {IF g.done THEN g ELSE Pool(m, x, g) : g \in {f}} : TRUE
        f2 == CHOOSE r \in {IF g.done THEN g ELSE Normalize(m, x, g) : g \in {f1}} : TRUE
        f3 == CHOOSE r \in {IF g.done THEN g ELSE BatchNorm(m, x, g) : g \in {f2}} : TRUE
        f4 == CHOOSE r \in {IF g.done THEN g ELSE Return(m, x, g) : g \in {f3}} : TRUE
    IN  f4

\* lines 158-254: the frame at the end of forward(sequence)
Forward(m, x) ==
    LET f1 == CHOOSE r \in {IF g.done THEN g ELSE CheckInput(m, x, g) : g \in {Frame0(m)}} : TRUE
        f2 == CHOOSE r \in {IF g.done THEN g ELSE RecurrentStack(m, x, g) : g \in {f1}} : TRUE
        f3 == CHOOSE r \in {IF g.done THEN g ELSE Concatenate(m, x, g) : g \in {f2}} : TRUE
        f4 == CHOOSE r \in {IF g.done THEN g ELSE LinearStack(m, x, g) : g \in {f3}} : TRUE
        f5 == CHOOSE r \in {IF g.done THEN g ELSE Activations(m, x, g) : g \in {f4}} : TRUE
        f6 == CHOOSE r \in {IF g.done THEN g ELSE Weight(m, x, g) : g \in {f5}} : TRUE
        f7 == CHOOSE r \in {IF g.done THEN g ELSE Internal(m, x, g) : g \in {f6}} : TRUE
        f8 == CHOOSE r \in {IF g.done THEN g ELSE Attention(m, x, g) : g \in {f7}} : TRUE
        f9 == CHOOSE r \in {IF g.done THEN g ELSE Embed(m, x, g) : g \in {f8}} : TRUE
    IN  f9

\* ------------------------------------------------------------- inputs
\* A forward call's input: the shape of the sequence, and the values the
\* layer stack (act, a multiplier per timestep and batch element) and the
\* attention softmax (attw, a weight per timestep and batch element, summing
\* to 1 over time) produce on it.
Input(shape, act, attw) == [shape |-> shape, act |-> act, attw |-> attw]

NoInput == Input(<<>>, <<>>, <<>>)

Uniform(T) == [t \in 1..T |-> Q(1, T)]

Skewed(T) == [t \in 1..T |-> IF t < T THEN Q(1, 2 * T) ELSE Q(T + 1, 2 * T)]

PlainInput(T, B, F) ==
    Input(<<T, B, F>>, [t \in 1..T |-> [b \in 1..B |-> 1]],
          [t \in 1..T |-> [b \in 1..B |-> Uniform(T)[t]]])

Inputs == {PlainInput(T, B, F) : T \in 1..MaxTime, B \in 1..MaxBatch, F \in 1..MaxFeat}

ActValues == {-1, 0, 1}

ValuedInputs ==
    UNION {
      UNION {
        { Input(<<T, B, 1>>, act, [t \in 1..T |-> [b \in 1..B |-> prof[t]]]) :
            act \in [1..T -> [1..B -> ActValues]], prof \in {Uniform(T), Skewed(T)} }
        : B \in {k \in 1..MaxBatch : T * k <= MaxCells} }
      : T \in 1..MaxTime }

\* ------------------------------------------------- constructor arguments
\* every combination of kind and flags, over a few stacks
FlagArgs ==
    { Args(n, rnn, rec, bi, lin, w, int, norm, att, ra, bn) :
        n \in 1..MaxFeat, rnn \in RnnKinds,
        rec \in {<<>>, <<MaxDim>>}, lin \in {<<>>, <<1>>},
        att \in {NoAttention, AttentionList(<<MaxDim>>)},
        bi \in BOOLEAN, w \in BOOLEAN, int \in BOOLEAN, norm \in BOOLEAN,
        ra \in BOOLEAN, bn \in BOOLEAN }

\* every recurrent and linear stack, under the default flags
StackArgs ==
    { Args(MaxFeat, rnn, rec, bi, lin, FALSE, FALSE, TRUE, NoAttention, FALSE, FALSE) :
        rnn \in {"LSTM", "GRU"}, rec \in DimLists, lin \in DimLists, bi \in BOOLEAN }

\* every attention list
AttentionArgs ==
    { Args(n, "LSTM", <<MaxDim>>, FALSE, <<1>>, FALSE, int, TRUE, att, ra, FALSE) :
        n \in 1..MaxFeat, int \in BOOLEAN, ra \in BOOLEAN,
        att \in {NoAttention} \cup {AttentionList(l) : l \in DimLists} }

ArgSpace == FlagArgs \cup StackArgs \cup AttentionArgs

\* the configurations whose values are followed
ValuedArgs ==
    { Args(1, "LSTM", <<h>>, FALSE, <<>>, w, int, norm, att, FALSE, bn) :
        h \in HiddenDims, w \in BOOLEAN, int \in BOOLEAN, norm \in BOOLEAN,
        bn \in BOOLEAN, att \in {NoAttention, AttentionList(<<1>>)} }

\* ------------------------------------------------------------ actions
Init ==
    /\ pc = "new"
    /\ args = <<>>
    /\ model = NoModule
    /\ sequence = NoInput
    /\ ret = NoReturn
    /\ attn = Unbound
    /\ trace = <<>>
    /\ applied = <<>>

\* model = ClopiNet(...)
ConstructFrom(space) ==
    /\ pc = "new"
    /\ \E a \in space :
         \E r \in {Construct(a)} :
             /\ pc' = IF r.ok THEN "ready" ELSE "rejected"
             /\ args' = a
             /\ model' = r.module
    /\ UNCHANGED <<sequence, ret, attn, trace, applied>>

\* model(sequence)
ForwardOn(inputs) ==
    /\ pc = "ready"
    /\ \E x \in inputs :
         \E f \in {Forward(model, x)} :
             /\ pc' = IF f.ret.kind = "error" THEN "raised" ELSE "returned"
             /\ model' = [model EXCEPT !.batch_norm_.stats = f.stats]
             /\ sequence' = x
             /\ ret' = f.ret
             /\ attn' = f.attn
             /\ trace' = f.trace
             /\ applied' = f.applied
    /\ UNCHANGED args

\* the caller is done with the result of the call; the module is ready again
Discard ==
    /\ pc \in {"returned", "raised"}
    /\ pc' = "ready"
    /\ sequence' = NoInput
    /\ ret' = NoReturn
    /\ attn' = Unbound
    /\ trace' = <<>>
    /\ applied' = <<>>
    /\ UNCHANGED <<args, model>>

Next == ConstructFrom(ArgSpace) \/ ForwardOn(Inputs) \/ Discard

Spec == Init /\ [][Next]_vars

NextValued == ConstructFrom(ValuedArgs) \/ ForwardOn(ValuedInputs) \/ Discard

SpecValued == Init /\ [][NextValued]_vars

\* ------------------------------------------------------------ properties
Over == pc \in {"returned", "raised"}

Supported == args.rnn \in {"LSTM", "GRU"}

Matching == sequence.shape[3] = model.n_features

\* the output dimension the documentation states, from the arguments
StatedOutputDim ==
    IF args.linear # <<>> THEN Last(args.linear) ELSE SumSeq(args.recurrent)

Calls(op) == SelectSeq(applied, LAMBDA e : e.op = op)

IsPrefix(s, t) == Len(s) <= Len(t) /\ \A i \in 1..Len(s) : s[i] = t[i]

\* the squared L2 norm of a vector of a tensor whose entries read as rep
SqNorm(vec, rep) ==
    QSum([d \in 1..Len(vec) |->
            IF rep = "root" THEN [vec[d] EXCEPT !.n = Abs(@)] ELSE QMul(vec[d], vec[d])])

AllNaN(vec) == \A d \in 1..Len(vec) : IsNaN(vec[d])

Vectors(t) ==
    IF Len(t.shape) = 3
    THEN {t.val[i][b] : i \in 1..t.shape[1], b \in 1..t.shape[2]}
    ELSE {t.val[b] : b \in 1..t.shape[1]}

\* C1: for every configuration the constructor accepts with a supported kind,
\* a forward call on a sequence of the module's feature dimension returns a
\* result and raises nothing.
C1_ForwardCompletes == (Over /\ Supported /\ Matching) => pc = "returned"

\* C2: a forward call on a sequence whose feature dimension differs from
\* n_features raises ValueError before any layer is applied: nothing is
\* returned, and the module is left as it was.
C2_MismatchRaisesFirst ==
    [][(pc = "ready" /\ pc' # "ready" /\ sequence'.shape[3] # model.n_features)
        => /\ pc' = "raised"
           /\ ret'.exc = "ValueError"
           /\ ret'.out = Unbound
           /\ attn' = Unbound
           /\ trace' = <<"check">>
           /\ applied' = <<>>
           /\ model' = model]_vars

C2_Witness ==
    /\ pc = "raised"
    /\ ~Matching
    /\ ret.exc = "ValueError"
    /\ model.recurrent # <<>>
    /\ model.batch_norm_.stats = "updated"

\* C3: constructing with a kind other than LSTM and GRU raises, whatever
\* the other arguments are, and no module is returned.
C3_UnsupportedKindRejected ==
    (pc # "new" /\ ~Supported) => (pc = "rejected" /\ model = NoModule)

\* C4: in non-internal mode the embedding returned for an input of shape
\* (time, batch, n_features) has shape (batch, output_dim), output_dim being
\* the last linear dimension, or the sum of the recurrent ones when there
\* is no linear layer.
C4_PooledShape ==
    (pc = "returned" /\ ~model.internal)
        => /\ ret.out.shape = <<sequence.shape[2], StatedOutputDim>>
           /\ OutputDim(model) = StatedOutputDim

C4_Witness ==
    /\ pc = "returned"
    /\ ~model.internal
    /\ model.bidirectional
    /\ model.linear = <<>>
    /\ Len(model.recurrent) = 2
    /\ sequence.shape[1] # sequence.shape[2]
    /\ ret.out.shape = <<sequence.shape[2], SumSeq(model.recurrent)>>

\* the vector a returned embedding was normalized from was all zero
\* (internal mode: timestep t of batch element b; pooled: batch element b)
ZeroStep(t, b) == sequence.act[t][b] = 0

ZeroPooled(b) ==
    QSum([t \in 1..sequence.shape[1] |->
            QMul(QInt(sequence.act[t][b]),
                 IF model.attention_layers_ # <<>> THEN sequence.attw[t][b]
                 ELSE QInt(1))]).n = 0

UnitUnlessZero(vec, rep, zero) ==
    IF zero THEN AllNaN(vec) ELSE SqNorm(vec, rep) = QInt(1)

\* C5 as stated: with normalize enabled every embedding vector returned has
\* L2 norm 1, whatever the other flags are.
C5_UnitNorm ==
    (pc = "returned" /\ model.normalize)
        => \A vec \in Vectors(ret.out) : SqNorm(vec, ret.out.rep) = QInt(1)

\* C5 amended: with normalize enabled, and batch normalization disabled or
\* internal mode on, every embedding vector returned has L2 norm 1, unless
\* the vector it was normalized from was all zero, and then it is all NaN.
C5_UnitNormWithoutBatchNorm ==
    (pc = "returned" /\ model.normalize
       /\ (model.internal \/ ~model.batch_normalization))
        => IF model.internal
           THEN \A t \in 1..sequence.shape[1], b \in 1..sequence.shape[2] :
                   UnitUnlessZero(ret.out.val[t][b], ret.out.rep, ZeroStep(t, b))
           ELSE \A b \in 1..sequence.shape[2] :
                   UnitUnlessZero(ret.out.val[b], ret.out.rep, ZeroPooled(b))

C5_Witness ==
    /\ pc = "returned"
    /\ model.normalize /\ ~model.internal /\ ~model.batch_normalization
    /\ model.attention_layers_ # <<>>
    /\ model.recurrent = <<2>>
    /\ \E b, c \in 1..sequence.shape[2] :
          /\ ZeroPooled(b) /\ AllNaN(ret.out.val[b])
          /\ ~ZeroPooled(c) /\ SqNorm(ret.out.val[c], ret.out.rep) = QInt(1)
          /\ \E t \in 1..sequence.shape[1] : ~ZeroStep(t, b)

\* C6: with internal set, forward returns one tensor that keeps the time
\* axis, of shape (time, batch, output_dim), never a tuple, and the call
\* runs no attention, no pooling and no batch normalization.
C6_InternalSequence ==
    (Over /\ model.internal)
        => /\ \A i \in 1..Len(trace) : trace[i] \notin {"attention", "pool", "batchnorm"}
           /\ Calls("attention") = <<>> /\ Calls("batch_norm") = <<>>
           /\ attn = Unbound
           /\ model.batch_norm_.stats \in {"absent", "initial"}
           /\ pc = "returned" =>
                /\ ret.kind = "tensor"
                /\ ret.attn = Unbound
                /\ ret.out.shape =
                      <<sequence.shape[1], sequence.shape[2], StatedOutputDim>>

C6_Witness ==
    /\ pc = "returned"
    /\ model.internal /\ model.return_attention /\ model.batch_normalization
    /\ model.attention_layers_ # <<>>
    /\ ret.kind = "tensor"
    /\ Len(ret.out.shape) = 3

\* C7: every recurrent and linear layer is called on an input whose feature
\* dimension is the input dimension it was built with: n_features for the
\* first recurrent layer, the hidden dimension of the layer before for the
\* next ones (bidirectional or not), the sum of the recurrent dimensions for
\* the first linear layer, the dimension of the layer before for the next.
C7_LayerInputs ==
    \A k \in 1..Len(applied) :
        LET e == applied[k]
            got == Last(e.input)
        IN  /\ e.op = "recurrent" =>
                /\ got = e.layer.input_size
                /\ got = IF e.index = 1 THEN args.n_features
                         ELSE args.recurrent[e.index - 1]
            /\ e.op = "linear" =>
                /\ got = e.layer.in_features
                /\ got = IF e.index = 1 THEN SumSeq(args.recurrent)
                         ELSE args.linear[e.index - 1]

C7_Witness ==
    /\ pc = "returned"
    /\ model.bidirectional
    /\ Len(model.recurrent) = 2 /\ model.recurrent[1] # model.recurrent[2]
    /\ Len(model.linear) = 2
    /\ Len(Calls("recurrent")) = 2 /\ Len(Calls("linear")) = 2

\* C8: with a non-empty attention list the chain starts from n_features and
\* has one layer per entry, plus a scalar layer exactly when the last entry
\* is greater than 1; a call that reaches the attention stage applies every
\* layer, the first to the raw input sequence, and its attention weights
\* have shape (time, batch, 1).
C8_AttentionChain ==
    (pc \in {"ready", "returned", "raised"} /\ Truthy(args.attention))
        => LET dims == args.attention.dims
               chain == model.attention_layers_
               calls == Calls("attention")
           IN  /\ Len(chain) = Len(dims) + (IF Last(dims) > 1 THEN 1 ELSE 0)
               /\ chain[1].in_features = args.n_features
               /\ \A i \in 1..Len(dims) : chain[i].out_features = dims[i]
               /\ \A i \in 2..Len(chain) :
                     chain[i].in_features = chain[i - 1].out_features
               /\ Last(chain).out_features = 1
               /\ (pc = "returned" /\ ~model.internal) =>
                     /\ Len(calls) = Len(chain)
                     /\ \A i \in 1..Len(calls) :
                           calls[i].index = i /\ calls[i].layer = chain[i]
                     /\ calls[1].input = sequence.shape
                     /\ attn.shape = <<sequence.shape[1], sequence.shape[2], 1>>
                     /\ ret.kind = "tuple" => ret.attn = attn

C8_Witness ==
    /\ pc = "returned"
    /\ ~model.internal
    /\ args.attention.dims = <<1, 2>>
    /\ Len(Calls("attention")) = 3
    /\ ret.kind = "tuple"
    /\ ret.attn.shape = <<sequence.shape[1], sequence.shape[2], 1>>

\* the stages of a non-internal call, in the order stated
StatedOrder ==
    <<"check", "recurrent", "concat", "linear", "weight", "attention", "pool",
      "normalize", "batchnorm", "return">>

Enabled(stage) ==
    CASE stage = "recurrent" -> model.recurrent # <<>>
      [] stage = "linear" -> model.linear # <<>>
      [] stage = "weight" -> model.weighted
      [] stage = "attention" -> Truthy(model.attention)
      [] stage = "normalize" -> model.normalize
      [] stage = "batchnorm" -> model.batch_normalization
      [] OTHER -> TRUE

\* C9: a non-internal call runs its enabled stages in the stated order, each
\* at most once: the weights of the attention before the pooling, the batch
\* normalization after the L2 normalization; a call that raises stops there.
C9_StageOrder ==
    (Over /\ ~model.internal)
        => LET stages == SelectSeq(StatedOrder, Enabled)
           IN  IF pc = "returned" THEN trace = stages ELSE IsPrefix(trace, stages)

C9_Witness ==
    /\ pc = "returned"
    /\ ~model.internal
    /\ trace = StatedOrder

\* the configuration fields of the module
Configuration(m) ==
    Args(m.n_features, m.rnn, m.recurrent, m.bidirectional, m.linear, m.weighted,
         m.internal, m.normalize, m.attention, m.return_attention,
         m.batch_normalization)

\* C10: in every call every recurrent layer starts from an all-zero hidden
\* state (and cell state for LSTM) of shape (directions, batch, hidden
\* dimension), never from a state a layer returned, and the configuration
\* fields stay what the constructor set.
C10_ZeroInitialState ==
    /\ pc \in {"ready", "returned", "raised"} => Configuration(model) = args
    /\ \A k \in 1..Len(applied) :
          LET e == applied[k]
              zeros == State(<<NumDirections(args.bidirectional), sequence.shape[2],
                               args.recurrent[e.index]>>, TRUE)
          IN  e.op = "recurrent" =>
                 /\ e.hidden.h = zeros
                 /\ e.hidden.c = IF args.rnn = "LSTM" THEN zeros ELSE NoState

C10_Witness ==
    /\ pc = "returned"
    /\ model.rnn = "LSTM" /\ model.bidirectional
    /\ Len(Calls("recurrent")) = 2
    /\ model.recurrent[1] # model.recurrent[2]
    /\ model.batch_norm_.stats = "absent"

====
